---- MODULE Spec2Model ----
(***************************************************************************)
(* A model of idofront/WhispArg (src/include/idofront/WhispArg.hpp):       *)
(* option declarations (Argument<T>), the token scanner / resolver         *)
(* (the free function Parse), the automatic converters, and the parsing    *)
(* session (class WhispArg).                                               *)
(*                                                                         *)
(* A std::string is a sequence of one-character strings, so that the       *)
(* length, the first character and the concatenations of the code are      *)
(* computed and not assumed.  A std::optional<T> is a record with a `has`  *)
(* field.  The template parameter T of Argument<T> is the field T of the   *)
(* declaration record.                                                     *)
(***************************************************************************)
EXTENDS Integers, Sequences, FiniteSets, TLC

VARIABLES
    ArgumentValues,        \* WhispArg::_ArgumentValues, or the argv handed to the free Parse
    ArgumentInformations,  \* WhispArg::_ArgumentInformations
    argument,              \* the declaration (Argument<T>) the caller holds
    result,                \* what the last Parse call did: returned value or exception
    lastDefault,           \* history: the value given to the last Default(v) call
    lastUpdate,            \* history: the value given to the last Update(argument, r) call
    candidate,             \* the token handed to isArgumentMatched
    matched,               \* what isArgumentMatched answered for it
    parseLog,              \* history: the WhispArg::Parse calls made, in order
    printed,               \* what the last call wrote to std::cout
    text,                  \* the text handed to WrapLines
    maxWidth,              \* the maxWidth handed to WrapLines or ShowHelp
    wrapped                \* the lines WrapLines returned

vars == <<ArgumentValues, ArgumentInformations, argument, result,
          lastDefault, lastUpdate, candidate, matched,
          parseLog, printed, text, maxWidth, wrapped>>

----------------------------------------------------------------------------
(* Bounds of the model *)

\* longest token list handed to the resolver
MaxArgc == 4
\* longest token handed to isArgumentMatched
MaxTokenLen == 4
\* longest digit string handed to the integer converters
MaxDigits == 4
\* most WhispArg::Parse calls on one session
MaxParses == 2
\* longest text handed to WrapLines
MaxTextLen == 6
\* largest maxWidth handed to WrapLines
MaxWrapWidth == 5
\* most declarations recorded before a ShowHelp of the help renderer alone
MaxInfos == 2
\* largest maxWidth handed to ShowHelp, the default apart
MaxHelpWidth == 24
\* the default maxWidth of ShowHelp
DefaultMaxWidth == 80

----------------------------------------------------------------------------
(* std::optional<T> *)

NullOpt == [has |-> FALSE]
Some(v) == [has |-> TRUE, val |-> v]

(* Strings *)

Str_true  == <<"t", "r", "u", "e">>
Str_false == <<"f", "a", "l", "s", "e">>
Str_help  == <<"h", "e", "l", "p">>
Str_h     == <<"h">>

\* the strings of length 0..n over the characters cs
RECURSIVE StringsUpTo(_, _)
StringsUpTo(cs, n) ==
    IF n = 0 THEN {<<>>}
    ELSE LET shorter == StringsUpTo(cs, n - 1)
         IN  shorter \cup {Append(s, c) : s \in {t \in shorter : Len(t) = n - 1}, c \in cs}

----------------------------------------------------------------------------
(* type::Flag *)

FlagTrue  == TRUE
FlagFalse == FALSE

\* Flag::ToString
FlagToString(flag) == IF flag THEN Str_true ELSE Str_false

----------------------------------------------------------------------------
(* Argument<T> *)

\* the private constructor Argument(shortName, name)
ArgumentCtor(shortName, name, T) ==
    [Name |-> name, ShortName |-> shortName, Description |-> <<>>,
     DefaultValue |-> NullOpt, IsRequired |-> FALSE, Value |-> NullOpt, T |-> T]

\* Argument::New(const char &shortName, const std::string &name)
ArgumentNew(shortName, name, T) == ArgumentCtor(<<shortName>>, name, T)

\* Argument::New(const std::string &name)
ArgumentNewLong(name, T) == ArgumentCtor(<<>>, name, T)

\* Argument::Description(description)
SetDescription(a, description) == [a EXCEPT !.Description = description]

\* Argument::Default(defaultValue)
SetDefault(a, defaultValue) == [a EXCEPT !.DefaultValue = Some(defaultValue)]

\* Argument::IsRequired(isRequired)
SetIsRequired(a, isRequired) == [a EXCEPT !.IsRequired = isRequired]

\* Argument::Default() const
Default(a) == a.DefaultValue

\* Argument::Update(argument, value)
Update(a, value) == [a EXCEPT !.Value = value]

\* Value() with the layers the wrong way round: the default hides the resolved value
ValueDefaultFirst(a) == IF Default(a).has THEN Default(a) ELSE a.Value

\* Argument::Value() const
Value(a) == IF a.Value.has THEN a.Value ELSE Default(a)

----------------------------------------------------------------------------
(* std::stoll / std::stoull, as the automatic converters use them *)

IsSpace(c) == c \in {" ", "\t", "\n"}
IsDigit(c) == c \in {"0", "1", "2", "3", "4", "5", "6", "7", "8", "9"}
DigitValue(c) ==
    CASE c = "0" -> 0 [] c = "1" -> 1 [] c = "2" -> 2 [] c = "3" -> 3 [] c = "4" -> 4
      [] c = "5" -> 5 [] c = "6" -> 6 [] c = "7" -> 7 [] c = "8" -> 8 [] c = "9" -> 9

\* the position of the first character of s, from k on, that is not white space
RECURSIVE SkipSpace(_, _)
SkipSpace(s, k) == IF k <= Len(s) /\ IsSpace(s[k]) THEN SkipSpace(s, k + 1) ELSE k

\* the digits of s from position k on: how many there are and their base-10 value
RECURSIVE ReadDigits(_, _, _, _)
ReadDigits(s, k, count, val) ==
    IF k <= Len(s) /\ IsDigit(s[k])
    THEN ReadDigits(s, k + 1, count + 1, 10 * val + DigitValue(s[k]))
    ELSE [count |-> count, val |-> val]

\* std::stoll(value): leading white space, an optional sign, then base-10 digits;
\* what follows the digits is ignored; no digit at all throws std::invalid_argument.
\* (std::out_of_range needs more than 18 digits, more than any token of the model.)
Stoll(value) ==
    LET k      == SkipSpace(value, 1)
        signed == k <= Len(value) /\ value[k] \in {"+", "-"}
        digits == ReadDigits(value, IF signed THEN k + 1 ELSE k, 0, 0)
    IN  [ok  |-> digits.count > 0,
         val |-> IF signed /\ value[k] = "-" THEN 0 - digits.val ELSE digits.val]

\* std::stoull(value): strtoull reads the same syntax and negates a value with a
\* minus sign in unsigned long long. The result is given by its representative
\* modulo 2^64; every use narrows it to a type of at most 16 bits.
Stoull(value) == Stoll(value)

----------------------------------------------------------------------------
(* The types T of the model and the conversion to T of a converter's result *)

SignedTypes   == {"int8_t", "int16_t"}
UnsignedTypes == {"uint8_t", "uint16_t"}
IntegerTypes  == SignedTypes \cup UnsignedTypes

\* the number of values of the integer type T, 2^(bits of T)
TypeRange(T) == IF T \in {"int8_t", "uint8_t"} THEN 256 ELSE 65536

\* the least and greatest value of the integer type T
TypeMin(T) == IF T \in UnsignedTypes THEN 0 ELSE 0 - (TypeRange(T) \div 2)
TypeMax(T) == IF T \in UnsignedTypes THEN TypeRange(T) - 1 ELSE (TypeRange(T) \div 2) - 1

\* the implicit conversion of the long long / unsigned long long a converter lambda
\* returns to the T of std::function<T(const std::string &)>: modulo 2^(bits of T)
Narrow(T, n) ==
    IF T \in UnsignedTypes THEN n % TypeRange(T)
    ELSE ((n - TypeMin(T)) % TypeRange(T)) + TypeMin(T)

----------------------------------------------------------------------------
(* The automatic converter of Parse(argv, argument): getConverter.           *)
(* [ok |-> TRUE, val |-> v] is a returned v, [ok |-> FALSE] an exception.    *)

Thrown == [ok |-> FALSE]
Returned(v) == [ok |-> TRUE, val |-> v]

AutoConvert(T, value) ==
    CASE T \in SignedTypes ->
            LET r == Stoll(value) IN IF r.ok THEN Returned(Narrow(T, r.val)) ELSE Thrown
      [] T \in UnsignedTypes ->
            LET r == Stoull(value) IN IF r.ok THEN Returned(Narrow(T, r.val)) ELSE Thrown
      [] T = "std::string" -> Returned(value)
      [] T = "bool" ->
            IF value = Str_true THEN Returned(TRUE)
            ELSE IF value = Str_false THEN Returned(FALSE)
            ELSE LET r == Stoll(value) IN IF r.ok THEN Returned(r.val # 0) ELSE Thrown
      [] T = "Flag" -> Returned(FlagTrue)

----------------------------------------------------------------------------
(* The free function Parse(argv, argument, converter) *)

\* argv[i][0]: the first character; for an empty string the terminating NUL
FirstChar(s) == IF s = <<>> THEN "NUL" ELSE s[1]

\* isArgumentMatched without the switch on the length of the token
isArgumentMatchedAnyLength(a, currentArgumentName) ==
    \/ a.ShortName # <<>> /\ (<<"-">> \o a.ShortName) = currentArgumentName
    \/ (<<"-", "-">> \o a.Name) = currentArgumentName

\* the lambda isArgumentMatched of Parse
isArgumentMatched(a, currentArgumentName) ==
    CASE Len(currentArgumentName) \in {0, 1} -> FALSE
      [] Len(currentArgumentName) = 2 ->
            IF a.ShortName = <<>> THEN FALSE
            ELSE (<<"-">> \o a.ShortName) = currentArgumentName
      [] OTHER -> (<<"-", "-">> \o a.Name) = currentArgumentName

\* the two conditions under which the scan treats argv[i] as the argument's switch
IsSwitchMatch(a, token) == FirstChar(token) = "-" /\ isArgumentMatched(a, token)

\* The state of the scan: i is the position the loop is at (1-based), actualValue
\* the captured raw value, thrown whether "requires a value" was thrown. examined
\* records the positions the loop visited, matchedAt those where the switch matched.
ScanStart ==
    [i |-> 1, actualValue |-> <<>>, thrown |-> FALSE, examined |-> {}, matchedAt |-> <<>>]

\* the loop body with a flag handled like the other types: it takes the next token
LoopBodyFlagTakesValue(argv, a, st) ==
    LET seen == [st EXCEPT !.examined = @ \cup {st.i}]
    IN  IF IsSwitchMatch(a, argv[st.i])
        THEN LET hit == [seen EXCEPT !.matchedAt = Append(@, st.i)]
             IN  IF st.i + 1 <= Len(argv)
                 THEN [hit EXCEPT !.actualValue = argv[st.i + 1], !.i = st.i + 2]
                 ELSE [hit EXCEPT !.thrown = TRUE]
        ELSE [seen EXCEPT !.i = st.i + 1]

\* the loop body without the throw: a switch with no next token captures ""
LoopBodyNoThrow(argv, a, st) ==
    LET seen == [st EXCEPT !.examined = @ \cup {st.i}]
    IN  IF IsSwitchMatch(a, argv[st.i])
        THEN LET hit == [seen EXCEPT !.matchedAt = Append(@, st.i)]
             IN  IF a.T = "Flag"
                 THEN [hit EXCEPT !.actualValue = FlagToString(FlagTrue), !.i = st.i + 1]
                 ELSE IF st.i + 1 <= Len(argv)
                      THEN [hit EXCEPT !.actualValue = argv[st.i + 1], !.i = st.i + 2]
                      ELSE [hit EXCEPT !.actualValue = <<>>, !.i = st.i + 1]
        ELSE [seen EXCEPT !.i = st.i + 1]

\* the loop body keeping the first captured value: a later match does not overwrite it
LoopBodyFirstWins(argv, a, st) ==
    LET seen == [st EXCEPT !.examined = @ \cup {st.i}]
        keep(v) == IF st.actualValue = <<>> THEN v ELSE st.actualValue
    IN  IF IsSwitchMatch(a, argv[st.i])
        THEN LET hit == [seen EXCEPT !.matchedAt = Append(@, st.i)]
             IN  IF a.T = "Flag"
                 THEN [hit EXCEPT !.actualValue = keep(FlagToString(FlagTrue)), !.i = st.i + 1]
                 ELSE IF st.i + 1 <= Len(argv)
                      THEN [hit EXCEPT !.actualValue = keep(argv[st.i + 1]), !.i = st.i + 2]
                      ELSE [hit EXCEPT !.thrown = TRUE]
        ELSE [seen EXCEPT !.i = st.i + 1]

\* the loop body keeping the captured value when the next token is empty
LoopBodySkipsEmptyValue(argv, a, st) ==
    LET seen == [st EXCEPT !.examined = @ \cup {st.i}]
        keep(v) == IF v = <<>> THEN st.actualValue ELSE v
    IN  IF IsSwitchMatch(a, argv[st.i])
        THEN LET hit == [seen EXCEPT !.matchedAt = Append(@, st.i)]
             IN  IF a.T = "Flag"
                 THEN [hit EXCEPT !.actualValue = FlagToString(FlagTrue), !.i = st.i + 1]
                 ELSE IF st.i + 1 <= Len(argv)
                      THEN [hit EXCEPT !.actualValue = keep(argv[st.i + 1]), !.i = st.i + 2]
                      ELSE [hit EXCEPT !.thrown = TRUE]
        ELSE [seen EXCEPT !.i = st.i + 1]

\* the loop body with argv[i + 1] in place of argv[++i]: the value is captured and
\* then visited as a token
LoopBodyValueNotSkipped(argv, a, st) ==
    LET seen == [st EXCEPT !.examined = @ \cup {st.i}]
    IN  IF IsSwitchMatch(a, argv[st.i])
        THEN LET hit == [seen EXCEPT !.matchedAt = Append(@, st.i)]
             IN  IF a.T = "Flag"
                 THEN [hit EXCEPT !.actualValue = FlagToString(FlagTrue), !.i = st.i + 1]
                 ELSE IF st.i + 1 <= Len(argv)
                      THEN [hit EXCEPT !.actualValue = argv[st.i + 1], !.i = st.i + 1]
                      ELSE [hit EXCEPT !.thrown = TRUE]
        ELSE [seen EXCEPT !.i = st.i + 1]

\* one iteration of the for loop, its i++ included
LoopBody(argv, a, st) ==
    LET seen == [st EXCEPT !.examined = @ \cup {st.i}]
    IN  IF IsSwitchMatch(a, argv[st.i])
        THEN LET hit == [seen EXCEPT !.matchedAt = Append(@, st.i)]
             IN  IF a.T = "Flag"
                 THEN [hit EXCEPT !.actualValue = FlagToString(FlagTrue), !.i = st.i + 1]
                 ELSE IF st.i + 1 <= Len(argv)
                      THEN [hit EXCEPT !.actualValue = argv[st.i + 1], !.i = st.i + 2]
                      ELSE [hit EXCEPT !.thrown = TRUE]
        ELSE [seen EXCEPT !.i = st.i + 1]

\* the for loop
RECURSIVE ScanLoop(_, _, _)
ScanLoop(argv, a, st) ==
    IF st.thrown \/ st.i > Len(argv) THEN st
    ELSE ScanLoop(argv, a, LoopBody(argv, a, st))

\* What a Parse call did. status is "returned" or the exception thrown; value is
\* the std::optional<T> returned; converted lists the strings the converter was
\* called with; scan is the final state of the scan.
Outcome(status, value, converted, st) ==
    [status |-> status, value |-> value, converted |-> converted, scan |-> st]

NoResult == [status |-> "none"]

\* a call that writes nothing to std::cout
NoOutput == [helpLines |-> <<>>]

\* the part after the loop with the default looked at before the required check
AfterScanDefaultFirst(a, st) ==
    IF st.actualValue = <<>>
    THEN IF Default(a).has
         THEN Outcome("returned", Default(a), <<>>, st)
         ELSE IF a.IsRequired
              THEN Outcome("RequiredMissing", NullOpt, <<>>, st)
              ELSE Outcome("returned", NullOpt, <<>>, st)
    ELSE LET r == AutoConvert(a.T, st.actualValue)
         IN  IF r.ok
             THEN Outcome("returned", Some(r.val), <<st.actualValue>>, st)
             ELSE Outcome("CoercionFailure", NullOpt, <<st.actualValue>>, st)

\* the part after the loop without the return of the default: an empty raw value of a
\* declaration that is not required goes on to the converter
AfterScanNoEarlyReturn(a, st) ==
    IF st.actualValue = <<>> /\ a.IsRequired
    THEN Outcome("RequiredMissing", NullOpt, <<>>, st)
    ELSE LET r == AutoConvert(a.T, st.actualValue)
         IN  IF r.ok
             THEN Outcome("returned", Some(r.val), <<st.actualValue>>, st)
             ELSE Outcome("CoercionFailure", NullOpt, <<st.actualValue>>, st)

\* the part of Parse after the loop: required check, default, conversion
AfterScan(a, st) ==
    IF st.actualValue = <<>>
    THEN IF a.IsRequired
         THEN Outcome("RequiredMissing", NullOpt, <<>>, st)
         ELSE Outcome("returned", Default(a), <<>>, st)
    ELSE LET r == AutoConvert(a.T, st.actualValue)
         IN  IF r.ok
             THEN Outcome("returned", Some(r.val), <<st.actualValue>>, st)
             ELSE Outcome("CoercionFailure", NullOpt, <<st.actualValue>>, st)

\* Parse(argv, argument) with the automatic converter
Parse(argv, a) ==
    LET st == ScanLoop(argv, a, ScanStart)
    IN  IF st.thrown THEN Outcome("MissingValue", NullOpt, <<>>, st)
        ELSE AfterScan(a, st)

----------------------------------------------------------------------------
(* ArgumentInformation and the session, class WhispArg *)

\* ArgumentInformation::New(argument)
ArgumentInformationNew(a) ==
    [Name |-> a.Name, ShortName |-> a.ShortName, Description |-> a.Description,
     IsFlag |-> a.T = "Flag", IsRequired |-> a.IsRequired]

\* Record putting the new entry in front of the others
RecordInFront(informations, a) == <<ArgumentInformationNew(a)>> \o informations

\* Record leaving out a declaration whose name is recorded already
RecordUnique(informations, a) ==
    IF \E k \in 1..Len(informations) : informations[k].Name = a.Name
    THEN informations
    ELSE Append(informations, ArgumentInformationNew(a))

\* _ArgumentInformations.push_back(ArgumentInformation::New(argument))
Record(informations, a) == Append(informations, ArgumentInformationNew(a))

\* the Argument WhispArg::Parse returns when the free Parse returned r
ParseReturn(a, r) == IF r.value.has THEN Update(a, r.value) ELSE a

----------------------------------------------------------------------------
(* WhispArg::WrapLines and WhispArg::WrapLine.                                *)
(* A std::size_t is a natural number; a difference of two std::size_t that    *)
(* wrapped around (2^64 + d for a negative d) is kept as the negative d, and  *)
(* compares as larger than every length of the model.                         *)

\* a - b on std::size_t
SizeSub(a, b) == a - b

\* n <= w on std::size_t, n a length of the model
SizeLeq(n, w) == w < 0 \/ n <= w

\* std::string(n, ' ')
Spaces(n) == [i \in 1..n |-> " "]

\* the position of the first '\n' of t, 0 when there is none
FirstNewline(t) ==
    IF \E i \in 1..Len(t) : t[i] = "\n"
    THEN CHOOSE i \in 1..Len(t) : t[i] = "\n" /\ \A j \in 1..(i - 1) : t[j] # "\n"
    ELSE 0

\* the lines `while (std::getline(stream, line))` reads from t, in order
RECURSIVE GetLines(_)
GetLines(t) ==
    IF t = <<>> THEN <<>>
    ELSE LET k == FirstNewline(t)
         IN  IF k = 0 THEN <<t>>
             ELSE <<SubSeq(t, 1, k - 1)>> \o GetLines(SubSeq(t, k + 1, Len(t)))

\* the length of the run of characters of t from k on that are not white space
RECURSIVE WordLength(_, _)
WordLength(t, k) ==
    IF k > Len(t) \/ IsSpace(t[k]) THEN 0 ELSE 1 + WordLength(t, k + 1)

\* the words `while (words >> word)` reads from t, from position k on, in order
RECURSIVE WordsFrom(_, _)
WordsFrom(t, k) ==
    LET b == SkipSpace(t, k)
    IN  IF b > Len(t) THEN <<>>
        ELSE LET n == WordLength(t, b)
             IN  <<SubSeq(t, b, b + n - 1)>> \o WordsFrom(t, b + n)

Words(t) == WordsFrom(t, 1)

\* the state of WrapLine before its loop
WrapStart == [lines |-> <<>>, currentLine |-> <<>>]

\* WrapStep with `<` where the code has `<=`
WrapStepStrict(st, word, width) ==
    IF width < 0 \/ Len(st.currentLine) + Len(word) + 1 < width
    THEN [st EXCEPT !.currentLine =
                 (IF st.currentLine # <<>> THEN st.currentLine \o <<" ">> ELSE st.currentLine)
                     \o word]
    ELSE [lines |-> IF st.currentLine # <<>> THEN Append(st.lines, st.currentLine)
                    ELSE st.lines,
          currentLine |-> word]

\* one turn of the loop of WrapLine, on the word it has read
WrapStep(st, word, width) ==
    IF SizeLeq(Len(st.currentLine) + Len(word) + 1, width)
    THEN [st EXCEPT !.currentLine =
                 (IF st.currentLine # <<>> THEN st.currentLine \o <<" ">> ELSE st.currentLine)
                     \o word]
    ELSE [lines |-> IF st.currentLine # <<>> THEN Append(st.lines, st.currentLine)
                    ELSE st.lines,
          currentLine |-> word]

RECURSIVE WrapLoop(_, _, _, _)
WrapLoop(ws, k, st, width) ==
    IF k > Len(ws) THEN st ELSE WrapLoop(ws, k + 1, WrapStep(st, ws[k], width), width)

\* WrapLine without the push_back after its loop
WrapLineNoLastLine(t, width) == WrapLoop(Words(t), 1, WrapStart, width).lines

\* WrapLine(text, maxWidth)
WrapLine(t, width) ==
    LET st == WrapLoop(Words(t), 1, WrapStart, width)
    IN  IF st.currentLine # <<>> THEN Append(st.lines, st.currentLine) ELSE st.lines

RECURSIVE WrapEach(_, _, _)
WrapEach(ls, k, width) ==
    IF k > Len(ls) THEN <<>> ELSE WrapLine(ls[k], width) \o WrapEach(ls, k + 1, width)

\* WrapLines(text, maxWidth)
WrapLines(t, width) == WrapEach(GetLines(t), 1, width)

----------------------------------------------------------------------------
(* WhispArg::ShowHelp(maxWidth) *)

LowerCase == <<"a", "b", "c", "d", "e", "f", "g", "h", "i", "j", "k", "l", "m",
               "n", "o", "p", "q", "r", "s", "t", "u", "v", "w", "x", "y", "z">>
UpperCase == <<"A", "B", "C", "D", "E", "F", "G", "H", "I", "J", "K", "L", "M",
               "N", "O", "P", "Q", "R", "S", "T", "U", "V", "W", "X", "Y", "Z">>

\* std::toupper(c)
ToUpperChar(c) ==
    IF \E k \in 1..Len(LowerCase) : LowerCase[k] = c
    THEN UpperCase[CHOOSE k \in 1..Len(LowerCase) : LowerCase[k] = c]
    ELSE c

\* std::transform(..., std::toupper) over a string
ToUpper(s) == [i \in 1..Len(s) |-> ToUpperChar(s[i])]

Str_Usage   == <<"U", "s", "a", "g", "e", ":", " ">>
Str_options == <<" ", "[", "o", "p", "t", "i", "o", "n", "s", "]">>
Str_Options == <<"O", "p", "t", "i", "o", "n", "s", ":">>

\* the key string of one recorded declaration
HelpString(information) ==
    LET helpString ==
            <<"-", "-">> \o information.Name
                \o (IF information.ShortName = <<>> THEN <<>>
                    ELSE <<" ", "(", "-">> \o information.ShortName \o <<")">>)
    IN  IF ~information.IsFlag
        THEN helpString \o <<" ", "<">> \o ToUpper(information.Name) \o <<">">>
        ELSE helpString

\* std::accumulate(..., 0, max(l, helpString.size())) over the keys from k on
RECURSIVE KeysMaxLengthFrom(_, _, _)
KeysMaxLengthFrom(keys, k, l) ==
    IF k > Len(keys) THEN l
    ELSE KeysMaxLengthFrom(keys, k + 1, IF Len(keys[k]) > l THEN Len(keys[k]) ELSE l)

KeysMaxLength(keys) == KeysMaxLengthFrom(keys, 1, 0)

\* isOneLine with `<=` where the code has `<`
IsOneLineInclusive(keysMaxLength, width) == keysMaxLength <= width \div 3

\* isOneLine with the whole width where the code has a third of it
IsOneLineWholeWidth(keysMaxLength, width) == keysMaxLength < width

\* isOneLine = keysMaxLength < (maxWidth / 3)
IsOneLine(keysMaxLength, width) == keysMaxLength < width \div 3

\* indentWidth; maxWidth * (1.0 / 20.0) truncated to std::size_t is maxWidth / 20 for
\* every width of the model
IndentWidth(keysMaxLength, isOneLine, width) ==
    IF isOneLine THEN keysMaxLength + 2 ELSE width \div 20

\* descriptionWidth
DescriptionWidth(keysMaxLength, isOneLine, width) ==
    IF isOneLine THEN SizeSub(SizeSub(width, keysMaxLength), 2)
    ELSE SizeSub(width, IndentWidth(keysMaxLength, isOneLine, width))

\* HelpBlock without the reset of leadingString after the first description line
HelpBlockKeyOnEveryLine(helpString, description, keysMaxLength, isOneLine, width) ==
    LET indentWidth   == IndentWidth(keysMaxLength, isOneLine, width)
        padding       == Spaces(SizeSub(keysMaxLength, Len(helpString)))
        leadingString == IF isOneLine THEN helpString \o padding \o <<" ", " ">>
                         ELSE Spaces(indentWidth)
        wrappedDescription ==
            WrapLines(description, DescriptionWidth(keysMaxLength, isOneLine, width))
    IN  (IF isOneLine THEN <<>> ELSE <<helpString>>)
            \o (IF Len(wrappedDescription) # 0
                THEN [k \in 1..Len(wrappedDescription) |->
                         leadingString
                             \o wrappedDescription[k]]
                ELSE IF isOneLine THEN <<leadingString>> ELSE <<>>)

\* HelpBlock without the line of a declaration that has no description line
HelpBlockNoKeyOnlyLine(helpString, description, keysMaxLength, isOneLine, width) ==
    LET indentWidth   == IndentWidth(keysMaxLength, isOneLine, width)
        padding       == Spaces(SizeSub(keysMaxLength, Len(helpString)))
        leadingString == IF isOneLine THEN helpString \o padding \o <<" ", " ">>
                         ELSE Spaces(indentWidth)
        wrappedDescription ==
            WrapLines(description, DescriptionWidth(keysMaxLength, isOneLine, width))
    IN  (IF isOneLine THEN <<>> ELSE <<helpString>>)
            \o (IF Len(wrappedDescription) # 0
                THEN [k \in 1..Len(wrappedDescription) |->
                         (IF k = 1 THEN leadingString ELSE Spaces(indentWidth))
                             \o wrappedDescription[k]]
                ELSE <<>>)

\* the lines the for_each body of ShowHelp pushes for one declaration
HelpBlock(helpString, description, keysMaxLength, isOneLine, width) ==
    LET indentWidth   == IndentWidth(keysMaxLength, isOneLine, width)
        padding       == Spaces(SizeSub(keysMaxLength, Len(helpString)))
        leadingString == IF isOneLine THEN helpString \o padding \o <<" ", " ">>
                         ELSE Spaces(indentWidth)
        wrappedDescription ==
            WrapLines(description, DescriptionWidth(keysMaxLength, isOneLine, width))
    IN  (IF isOneLine THEN <<>> ELSE <<helpString>>)
            \o (IF Len(wrappedDescription) # 0
                THEN [k \in 1..Len(wrappedDescription) |->
                         (IF k = 1 THEN leadingString ELSE Spaces(indentWidth))
                             \o wrappedDescription[k]]
                ELSE IF isOneLine THEN <<leadingString>> ELSE <<>>)

\* the concatenation of the sequences of ss from k on
RECURSIVE Concat(_, _)
Concat(ss, k) == IF k > Len(ss) THEN <<>> ELSE ss[k] \o Concat(ss, k + 1)

\* ShowHelp(maxWidth) on a session: the lines written to std::cout (helpLines), with
\* the values of the locals they were computed from and the lines of each declaration
ShowHelp(argv, informations, width) ==
    LET keys          == [k \in 1..Len(informations) |-> HelpString(informations[k])]
        keysMaxLength == KeysMaxLength(keys)
        isOneLine     == IsOneLine(keysMaxLength, width)
        blocks        == [k \in 1..Len(informations) |->
                             HelpBlock(keys[k], informations[k].Description,
                                       keysMaxLength, isOneLine, width)]
    IN  [helpLines |-> <<Str_Usage \o argv[1] \o Str_options, Str_Options>>
                           \o Concat(blocks, 1),
         maxWidth |-> width,
         informations |-> informations,
         keys |-> keys,
         keysMaxLength |-> keysMaxLength,
         isOneLine |-> isOneLine,
         indentWidth |-> IndentWidth(keysMaxLength, isOneLine, width),
         descriptionWidth |-> DescriptionWidth(keysMaxLength, isOneLine, width),
         blocks |-> blocks]

----------------------------------------------------------------------------
(* The inputs of the model *)

Tok_short == <<"-", "h">>
Tok_long  == <<"-", "-">> \o Str_help
Tok_prog  == <<"p">>

\* the values of type T a caller gives to Default() and Update()
ValuesOf(T) ==
    CASE T = "Flag" -> {FlagFalse, FlagTrue}
      [] T = "bool" -> {FALSE, TRUE}
      [] T = "std::string" -> {<<"7">>, <<"-", "x">>}
      [] T \in IntegerTypes -> {1, 7}

\* the token lists of length 0..n over the tokens ts
ListsUpTo(ts, n) == UNION {[1..k -> ts] : k \in 0..n}

\* the declarations New(), Default() and IsRequired() build for the switches -h, --help
DeclarationsOf(types) ==
    LET created  == {ArgumentNew("h", Str_help, T) : T \in types}
                    \cup {ArgumentNewLong(Str_help, T) : T \in types}
        defaults == created \cup UNION {{SetDefault(a, v) : v \in ValuesOf(a.T)} : a \in created}
    IN  {SetIsRequired(a, b) : a \in defaults, b \in BOOLEAN}

\* resolver: an empty token, both switches, a value, and a dash token that is neither
ResolveTokens == {<<>>, Tok_short, Tok_long, <<"7">>, <<"-", "x">>}
ResolveTypes  == {"Flag", "std::string", "uint8_t", "bool"}

\* converters: signed and unsigned digit strings, with a character that is no digit
CoerceChars  == {"0", "3", "9", "x"}
CoerceTokens == {sign \o digits : sign \in {<<>>, <<"-">>, <<"+">>},
                                  digits \in StringsUpTo(CoerceChars, MaxDigits)}

\* isArgumentMatched: every token over two characters, and the neighbours of --help
MatchTokens ==
    StringsUpTo({"-", "h"}, MaxTokenLen)
    \cup {Tok_long, <<"-">> \o Str_help, Str_help, Tok_long \o <<"p">>, <<"-", "e">>, <<"h", "-">>}
MatchDeclarations ==
    {ArgumentNew(c, n, "Flag") : c \in {"h", "-"}, n \in {<<>>, Str_h, Str_help}}
    \cup {ArgumentNewLong(n, "Flag") : n \in {<<>>, Str_h, Str_help}}

\* session: the command lines of a program that declares -h / --help
SessionArgvs ==
    {<<Tok_prog>>, <<Tok_prog, Tok_short>>, <<Tok_prog, Tok_long, <<"7">>>>, <<Tok_prog, Tok_long>>}
SessionTypes == {"Flag", "uint8_t"}
Descriptions == {<<>>, <<"d">>}

\* WrapLines: every text over two letters, the space and the line break
WrapChars  == {"a", "b", " ", "\n"}
WrapTexts  == StringsUpTo(WrapChars, MaxTextLen)
WrapWidths == 0..MaxWrapWidth

\* a name of n characters
LongName(n) == [i \in 1..n |-> "x"]

\* ShowHelp: declarations with keys of 2, 3, 7, 8, 12, 25 and 26 characters, and
\* descriptions that are empty, blank, one word, several words, a long word, two lines
HelpDeclarations ==
    {SetDescription(ArgumentNew("h", <<"n">>, "Flag"), <<>>),
     SetDescription(ArgumentNew("h", <<"n">>, "Flag"), <<"a", "b", " ", "a", "b", " ", "a", "b">>),
     SetDescription(ArgumentNew("h", <<"n">>, "uint8_t"), <<" ">>),
     SetDescription(ArgumentNewLong(<<"n">>, "uint8_t"), <<"a", "\n", "b">>),
     SetDescription(ArgumentNewLong(<<"n">>, "Flag"), <<>>),
     SetDescription(ArgumentNewLong(<<"n">>, "Flag"), <<" ">>),
     SetDescription(ArgumentNewLong(<<"n">>, "Flag"), <<"a", "b", " ", "a", "b", " ", "a", "b">>),
     SetDescription(ArgumentNewLong(<<"n">>, "Flag"), <<"a", "b", "a", "b", "a", "b", "a", "b">>),
     SetDescription(ArgumentNewLong(<<>>, "Flag"), <<"a">>),
     SetDescription(ArgumentNewLong(LongName(23), "Flag"), <<>>),
     SetDescription(ArgumentNewLong(LongName(23), "Flag"), <<"a", "b", " ", "a", "b">>),
     SetDescription(ArgumentNewLong(LongName(24), "Flag"), <<>>)}
HelpInformations == {ArgumentInformationNew(a) : a \in HelpDeclarations}
HelpWidths == 0..MaxHelpWidth \cup {DefaultMaxWidth}

\* the session calls ShowHelp() with its default width
SessionWidths == {DefaultMaxWidth}

\* a program's declarations, built before they are resolved: the preset Help, a non-flag
\* of the same name, a required non-flag and a described flag of another name
ProgramDeclarations ==
    {SetDefault(SetDescription(ArgumentNew("h", Str_help, "Flag"), <<"d">>), FlagFalse),
     ArgumentNewLong(Str_help, "uint8_t"),
     SetIsRequired(ArgumentNewLong(<<"n">>, "uint8_t"), TRUE),
     SetDescription(ArgumentNewLong(<<"n">>, "Flag"), <<"d">>)}

\* the command lines of that program: no option, --help with a value that is a number,
\* with one that is not, and without a value
ProgramArgvs ==
    {<<Tok_prog>>, <<Tok_prog, Tok_long, <<"7">>>>, <<Tok_prog, Tok_long, <<"x">>>>,
     <<Tok_prog, Tok_long>>}

----------------------------------------------------------------------------
(* The operations *)

\* idofront::whisparg::Parse(argv, argument), called once on the inputs
FreeParse ==
    /\ printed' = NoOutput
    /\ UNCHANGED parseLog
    /\ result = NoResult
    /\ result' = Parse(ArgumentValues, argument)
    /\ UNCHANGED <<ArgumentValues, ArgumentInformations, argument,
                   lastDefault, lastUpdate, candidate, matched,
                   text, maxWidth, wrapped>>

\* isArgumentMatched behind the test argv[i][0] == '-', called once on the inputs
Match ==
    /\ printed' = NoOutput
    /\ UNCHANGED parseLog
    /\ ~matched.has
    /\ matched' = Some(IsSwitchMatch(argument, candidate))
    /\ UNCHANGED <<ArgumentValues, ArgumentInformations, argument, result,
                   lastDefault, lastUpdate, candidate,
                   text, maxWidth, wrapped>>

\* Argument<T>::New('h', "help") and Argument<T>::New("help")
CallNew ==
    /\ printed' = NoOutput
    /\ UNCHANGED parseLog
    /\ \E T \in SessionTypes :
          \/ argument' = ArgumentNew("h", Str_help, T)
          \/ argument' = ArgumentNewLong(Str_help, T)
    /\ lastDefault' = NullOpt
    /\ lastUpdate' = NullOpt
    /\ result' = NoResult
    /\ UNCHANGED <<ArgumentValues, ArgumentInformations, candidate, matched,
                   text, maxWidth, wrapped>>

\* argument.Description(description)
CallDescription ==
    /\ printed' = NoOutput
    /\ UNCHANGED parseLog
    /\ \E d \in Descriptions : argument' = SetDescription(argument, d)
    /\ UNCHANGED <<ArgumentValues, ArgumentInformations, result,
                   lastDefault, lastUpdate, candidate, matched,
                   text, maxWidth, wrapped>>

\* argument.Default(v)
CallDefault ==
    /\ printed' = NoOutput
    /\ UNCHANGED parseLog
    /\ \E v \in ValuesOf(argument.T) :
          /\ argument' = SetDefault(argument, v)
          /\ lastDefault' = Some(v)
    /\ UNCHANGED <<ArgumentValues, ArgumentInformations, result,
                   lastUpdate, candidate, matched,
                   text, maxWidth, wrapped>>

\* argument.IsRequired(b)
CallIsRequired ==
    /\ printed' = NoOutput
    /\ UNCHANGED parseLog
    /\ \E b \in BOOLEAN : argument' = SetIsRequired(argument, b)
    /\ UNCHANGED <<ArgumentValues, ArgumentInformations, result,
                   lastDefault, lastUpdate, candidate, matched,
                   text, maxWidth, wrapped>>

\* Argument<T>::Update(argument, r), the caller keeping the updated declaration
CallUpdate ==
    /\ printed' = NoOutput
    /\ UNCHANGED parseLog
    /\ \E r \in {NullOpt} \cup {Some(v) : v \in ValuesOf(argument.T)} :
          /\ argument' = Update(argument, r)
          /\ lastUpdate' = r
    /\ UNCHANGED <<ArgumentValues, ArgumentInformations, result,
                   lastDefault, candidate, matched,
                   text, maxWidth, wrapped>>

\* history: the declaration handed to a WhispArg::Parse call, as its fields read at
\* the call, and how the call ended
LogEntry(a, status) ==
    [Name |-> a.Name, ShortName |-> a.ShortName, Description |-> a.Description,
     T |-> a.T, IsRequired |-> a.IsRequired, status |-> status]

\* WhispArg::Parse(argument), the caller keeping the declaration it returns; when the
\* free Parse throws, nothing is returned and the caller's declaration stays as it is
SessionParse ==
    /\ printed' = NoOutput
    /\ Len(ArgumentInformations) < MaxParses
    /\ ArgumentInformations' = Record(ArgumentInformations, argument)
    /\ LET r == Parse(ArgumentValues, argument)
       IN  /\ result' = r
           /\ parseLog' = Append(parseLog, LogEntry(argument, r.status))
           /\ IF r.status = "returned"
              THEN /\ argument' = ParseReturn(argument, r)
                   /\ lastUpdate' = IF r.value.has THEN r.value ELSE lastUpdate
              ELSE UNCHANGED <<argument, lastUpdate>>
    /\ UNCHANGED <<ArgumentValues, lastDefault, candidate, matched,
                   text, maxWidth, wrapped>>

\* WrapLines(text, maxWidth), called once on the inputs
Wrap ==
    /\ ~wrapped.has
    /\ wrapped' = Some(WrapLines(text, maxWidth))
    /\ printed' = NoOutput
    /\ UNCHANGED <<ArgumentValues, ArgumentInformations, argument, result,
                   lastDefault, lastUpdate, candidate, matched,
                   parseLog, text, maxWidth>>

\* the caller turns to another of its declarations
Declare ==
    /\ argument' \in ProgramDeclarations
    /\ lastDefault' = argument'.DefaultValue
    /\ lastUpdate' = NullOpt
    /\ result' = NoResult
    /\ printed' = NoOutput
    /\ UNCHANGED <<ArgumentValues, ArgumentInformations, candidate, matched,
                   parseLog, text, maxWidth, wrapped>>

\* ShowHelp(maxWidth) on the session
CallShowHelp ==
    /\ printed' = ShowHelp(ArgumentValues, ArgumentInformations, maxWidth)
    /\ UNCHANGED <<ArgumentValues, ArgumentInformations, argument, result,
                   lastDefault, lastUpdate, candidate, matched,
                   parseLog, text, maxWidth, wrapped>>

----------------------------------------------------------------------------
(* The specifications *)

\* nothing wrapped, nothing printed, no WhispArg::Parse call made
InitRest ==
    /\ parseLog = <<>>
    /\ printed = NoOutput
    /\ text = <<>>
    /\ maxWidth = 0
    /\ wrapped = NullOpt

\* a session: WhispArg(argc, argv) constructed, a first declaration created
Init ==
    /\ ArgumentValues \in SessionArgvs
    /\ ArgumentInformations = <<>>
    /\ argument \in {ArgumentNew("h", Str_help, T) : T \in SessionTypes}
    /\ result = NoResult
    /\ lastDefault = NullOpt
    /\ lastUpdate = NullOpt
    /\ candidate = <<>>
    /\ matched = NullOpt
    /\ parseLog = <<>>
    /\ printed = NoOutput
    /\ text = <<>>
    /\ maxWidth \in SessionWidths
    /\ wrapped = NullOpt

Next ==
    \/ CallNew
    \/ CallDescription
    \/ CallDefault
    \/ CallIsRequired
    \/ SessionParse
    \/ CallShowHelp

Spec == Init /\ [][Next]_vars

\* a declaration as a value: created, configured by the builder calls, updated
ArgumentInit ==
    /\ argument \in {ArgumentNew("h", Str_help, T) : T \in SessionTypes}
    /\ ArgumentValues = <<>>
    /\ ArgumentInformations = <<>>
    /\ result = NoResult
    /\ lastDefault = NullOpt
    /\ lastUpdate = NullOpt
    /\ candidate = <<>>
    /\ matched = NullOpt
    /\ InitRest

ArgumentNext ==
    \/ CallNew
    \/ CallDescription
    \/ CallDefault
    \/ CallIsRequired
    \/ CallUpdate

SpecArgument == ArgumentInit /\ [][ArgumentNext]_vars

\* the resolver as a function of a token list and a declaration
ResolveInit ==
    /\ ArgumentValues \in ListsUpTo(ResolveTokens, MaxArgc)
    /\ argument \in DeclarationsOf(ResolveTypes)
    /\ ArgumentInformations = <<>>
    /\ result = NoResult
    /\ lastDefault = NullOpt
    /\ lastUpdate = NullOpt
    /\ candidate = <<>>
    /\ matched = NullOpt
    /\ InitRest

ResolveNext == FreeParse

SpecResolve == ResolveInit /\ [][ResolveNext]_vars

\* the integer converters as a function of the value token that follows --help
CoerceInit ==
    /\ \E t \in CoerceTokens : ArgumentValues = <<Tok_prog, Tok_long, t>>
    /\ argument \in {ArgumentNewLong(Str_help, T) : T \in IntegerTypes}
    /\ ArgumentInformations = <<>>
    /\ result = NoResult
    /\ lastDefault = NullOpt
    /\ lastUpdate = NullOpt
    /\ candidate = <<>>
    /\ matched = NullOpt
    /\ InitRest

CoerceNext == FreeParse

SpecCoerce == CoerceInit /\ [][CoerceNext]_vars

\* switch matching as a function of a declaration and a token
MatchInit ==
    /\ candidate \in MatchTokens
    /\ argument \in MatchDeclarations
    /\ matched = NullOpt
    /\ ArgumentValues = <<>>
    /\ ArgumentInformations = <<>>
    /\ result = NoResult
    /\ lastDefault = NullOpt
    /\ lastUpdate = NullOpt
    /\ InitRest

MatchNext == Match

SpecMatch == MatchInit /\ [][MatchNext]_vars

\* the word wrapping alone: one text and one width, wrapped once
WrapInit ==
    /\ text \in WrapTexts
    /\ maxWidth \in WrapWidths
    /\ wrapped = NullOpt
    /\ printed = NoOutput
    /\ parseLog = <<>>
    /\ ArgumentValues = <<>>
    /\ ArgumentInformations = <<>>
    /\ argument = ArgumentNew("h", Str_help, "Flag")
    /\ result = NoResult
    /\ lastDefault = NullOpt
    /\ lastUpdate = NullOpt
    /\ candidate = <<>>
    /\ matched = NullOpt

WrapNext == Wrap

SpecWrap == WrapInit /\ [][WrapNext]_vars

\* a program: WhispArg(argc, argv) constructed, then its declarations resolved one
\* after the other and the help shown
ProgramInit ==
    /\ ArgumentValues \in ProgramArgvs
    /\ ArgumentInformations = <<>>
    /\ argument \in ProgramDeclarations
    /\ lastDefault = argument.DefaultValue
    /\ lastUpdate = NullOpt
    /\ result = NoResult
    /\ candidate = <<>>
    /\ matched = NullOpt
    /\ parseLog = <<>>
    /\ printed = NoOutput
    /\ text = <<>>
    /\ maxWidth \in SessionWidths
    /\ wrapped = NullOpt

ProgramNext ==
    \/ Declare
    \/ SessionParse
    \/ CallShowHelp

SpecProgram == ProgramInit /\ [][ProgramNext]_vars

\* the help renderer alone: a session with its recorded declarations and one width
HelpInit ==
    /\ ArgumentValues = <<Tok_prog>>
    /\ ArgumentInformations \in ListsUpTo(HelpInformations, MaxInfos)
    /\ maxWidth \in HelpWidths
    /\ printed = NoOutput
    /\ parseLog = <<>>
    /\ text = <<>>
    /\ wrapped = NullOpt
    /\ argument = ArgumentNew("h", Str_help, "Flag")
    /\ result = NoResult
    /\ lastDefault = NullOpt
    /\ lastUpdate = NullOpt
    /\ candidate = <<>>
    /\ matched = NullOpt

HelpNext == CallShowHelp

SpecHelp == HelpInit /\ [][HelpNext]_vars

----------------------------------------------------------------------------
(* Vocabulary of the properties *)

\* the tokens that are the switch of declaration a: -<shortName> when it has a short
\* name, and --<name>
SwitchTokens(a) ==
    (IF a.ShortName = <<>> THEN {} ELSE {<<"-">> \o a.ShortName}) \cup {<<"-", "-">> \o a.Name}

\* the positions of argv that hold a switch of a
SwitchPositions(argv, a) == {i \in 1..Len(argv) : argv[i] \in SwitchTokens(a)}

\* how many consecutive switch tokens of a end the first n tokens of argv
RECURSIVE TrailingSwitches(_, _, _)
TrailingSwitches(argv, a, n) ==
    IF n >= 1 /\ argv[n] \in SwitchTokens(a) THEN 1 + TrailingSwitches(argv, a, n - 1) ELSE 0

\* a Parse call has been made on the inputs
Parsed == result.status # "none"

IsFlagDeclaration == argument.T = "Flag"

----------------------------------------------------------------------------
(* C1: a required declaration with none of its switches among the tokens fails with
   RequiredMissing and returns no value, also when a default is set. *)
C1_RequiredMissing ==
    (Parsed /\ argument.IsRequired /\ SwitchPositions(ArgumentValues, argument) = {})
        => (result.status = "RequiredMissing" /\ ~result.value.has)

C1_Witness ==
    /\ Parsed /\ argument.IsRequired /\ argument.DefaultValue.has
    /\ Len(ArgumentValues) >= 2
    /\ SwitchPositions(ArgumentValues, argument) = {}
    /\ result.status = "RequiredMissing"

(* C2: a declaration that is not required, with none of its switches among the tokens,
   resolves to its default unchanged (absent when none is set), and the converter is
   not called. *)
C2_DefaultReturned ==
    (Parsed /\ ~argument.IsRequired /\ SwitchPositions(ArgumentValues, argument) = {})
        => /\ result.status = "returned"
           /\ result.value = argument.DefaultValue
           /\ result.converted = <<>>

C2_Witness ==
    /\ Parsed /\ ~argument.IsRequired /\ argument.DefaultValue.has
    /\ Len(ArgumentValues) >= 2
    /\ SwitchPositions(ArgumentValues, argument) = {}
    /\ result.status = "returned" /\ result.value = argument.DefaultValue

(* C3: a flag whose switch occurs anywhere among the tokens resolves to true, whatever
   follows the switch and whatever its default; the scan visits every token, the one
   after a matched switch included. *)
C3_FlagPresentIsTrue ==
    (Parsed /\ IsFlagDeclaration /\ SwitchPositions(ArgumentValues, argument) # {})
        => /\ result.status = "returned"
           /\ result.value = Some(FlagTrue)
           /\ result.scan.examined = 1..Len(ArgumentValues)

C3_Witness ==
    /\ Parsed /\ IsFlagDeclaration
    /\ argument.DefaultValue = Some(FlagFalse)
    /\ Len(ArgumentValues) >= 3
    /\ ArgumentValues[2] \in SwitchTokens(argument)
    /\ ArgumentValues[3] = <<>>
    /\ result.value = Some(FlagTrue)
    /\ 3 \in result.scan.examined

(* C4: a flag without a default, not required, whose switch is not among the tokens
   resolves to false, not to an absent value: from the free Parse and from Value() of
   the declaration WhispArg::Parse returns. *)
C4_FlagAbsentIsFalse ==
    (/\ Parsed /\ IsFlagDeclaration /\ ~argument.DefaultValue.has /\ ~argument.IsRequired
     /\ SwitchPositions(ArgumentValues, argument) = {})
        => /\ result.status = "returned"
           /\ result.value = Some(FlagFalse)
           /\ Value(ParseReturn(argument, result)) = Some(FlagFalse)

(* C5, as stated: a non-flag declaration whose switch is the last token fails with
   MissingValue, whatever the earlier tokens. *)
C5_LastSwitchFails ==
    (/\ Parsed /\ ~IsFlagDeclaration /\ Len(ArgumentValues) >= 1
     /\ ArgumentValues[Len(ArgumentValues)] \in SwitchTokens(argument))
        => result.status = "MissingValue"

(* C5, amended: a non-flag declaration fails with MissingValue exactly when the token
   list ends in an odd number of consecutive switch tokens of the declaration: then the
   last token is reached as a switch. With an even number the last token is taken as
   the value of the switch before it, and MissingValue is not raised. *)
C5_MissingValueIffOddRun ==
    (Parsed /\ ~IsFlagDeclaration)
        => (result.status = "MissingValue"
              <=> TrailingSwitches(ArgumentValues, argument, Len(ArgumentValues)) % 2 = 1)

C5_Witness ==
    /\ Parsed /\ ~IsFlagDeclaration
    /\ Len(ArgumentValues) = 3
    /\ ArgumentValues[1] \in SwitchTokens(argument)
    /\ ArgumentValues[2] = <<"7">>
    /\ ArgumentValues[3] \in SwitchTokens(argument)
    /\ result.status = "MissingValue"

\* the positions, from i on, where a left-to-right reading of argv meets a switch of a,
\* the token after each switch being its value
RECURSIVE Occurrences(_, _, _)
Occurrences(argv, a, i) ==
    IF i > Len(argv) THEN <<>>
    ELSE IF argv[i] \in SwitchTokens(a) THEN <<i>> \o Occurrences(argv, a, i + 2)
    ELSE Occurrences(argv, a, i + 1)

(* C6: when the switch of a non-flag declaration is matched several times, each time
   followed by a non-empty value token, the result is the conversion of the value after
   the last matched occurrence, and the converter is called with that value only. *)
C6_LastOccurrenceWins ==
    LET argv == ArgumentValues
        occ  == Occurrences(argv, argument, 1)
    IN  (/\ Parsed /\ ~IsFlagDeclaration /\ Len(occ) >= 2
         /\ \A k \in 1..Len(occ) : occ[k] < Len(argv) /\ argv[occ[k] + 1] # <<>>)
            => LET last == argv[occ[Len(occ)] + 1]
                   c    == AutoConvert(argument.T, last)
               IN  /\ result.converted = <<last>>
                   /\ IF c.ok
                      THEN result.status = "returned" /\ result.value = Some(c.val)
                      ELSE result.status = "CoercionFailure"

C6_Witness ==
    /\ Parsed /\ argument.T = "uint8_t"
    /\ Len(ArgumentValues) = 4
    /\ ArgumentValues[1] \in SwitchTokens(argument)
    /\ ArgumentValues[2] = <<"-", "x">>
    /\ ArgumentValues[3] \in SwitchTokens(argument)
    /\ ArgumentValues[4] = <<"7">>
    /\ result.status = "returned" /\ result.value = Some(7)
    /\ result.converted = <<(<<"7">>)>>

(* C7: a token of length 0 or 1 never matches; a token of length 2 matches only a
   declaration with a non-empty short name, when it is - followed by the short name; a
   token of any other length matches only when it is -- followed by the name. A
   declaration named help with short name h matches -h and --help and nothing else. *)
C7_MatchByLength ==
    matched.has =>
        /\ matched.val =
              CASE Len(candidate) < 2 -> FALSE
                [] Len(candidate) = 2 ->
                      argument.ShortName # <<>> /\ candidate = <<"-">> \o argument.ShortName
                [] OTHER -> candidate = <<"-", "-">> \o argument.Name
        /\ (argument.ShortName = Str_h /\ argument.Name = Str_help)
              => (matched.val <=> candidate \in {Tok_short, Tok_long})

C7_Witness ==
    /\ matched.has /\ ~matched.val
    /\ argument.ShortName = Str_h /\ argument.Name = Str_h
    /\ candidate = <<"-", "-">>

\* the token is a base-10 numeral: an optional minus sign, then digits only
IsNumeral(token) ==
    LET digits == IF token # <<>> /\ token[1] = "-" THEN Tail(token) ELSE token
    IN  digits # <<>> /\ \A k \in 1..Len(digits) : IsDigit(digits[k])

\* the value of a numeral
RECURSIVE DigitsValue(_)
DigitsValue(digits) ==
    IF digits = <<>> THEN 0
    ELSE 10 * DigitsValue(SubSeq(digits, 1, Len(digits) - 1)) + DigitValue(digits[Len(digits)])
NumeralValue(token) ==
    IF token[1] = "-" THEN 0 - DigitsValue(Tail(token)) ELSE DigitsValue(token)

(* C8: for a signed or unsigned integer type, a captured numeral whose value lies
   outside the range of the type fails with a parse error (CoercionFailure). *)
C8_OutOfRangeFails ==
    LET token == ArgumentValues[Len(ArgumentValues)]
    IN  (/\ Parsed /\ argument.T \in IntegerTypes /\ Len(ArgumentValues) = 3
         /\ IsNumeral(token)
         /\ (NumeralValue(token) < TypeMin(argument.T) \/ NumeralValue(token) > TypeMax(argument.T)))
            => result.status = "CoercionFailure"

(* C9: a flag whose switch is among the tokens resolves to the inverse of the value
   given to Default(): Default(false) gives true, Default(true) gives false. *)
C9_FlagInvertsDefault ==
    (/\ Parsed /\ IsFlagDeclaration /\ argument.DefaultValue.has
     /\ SwitchPositions(ArgumentValues, argument) # {})
        => /\ result.status = "returned"
           /\ result.value = Some(~argument.DefaultValue.val)

\* the value the calls made so far layer: the last Update when it gave a value,
\* otherwise the last Default, otherwise nothing
Layered == IF lastUpdate.has THEN lastUpdate ELSE lastDefault

\* a step that is a call of Update on the caller's declaration
IsUpdateStep == \E r \in {NullOpt} \cup {Some(v) : v \in ValuesOf(argument.T)} :
                    argument' = Update(argument, r) /\ lastUpdate' = r

(* C10: after any sequence of Default(v) and Update(argument, r) calls, Value() is the
   value of the last Update when that was present, otherwise the last default,
   otherwise absent; and Update changes the resolved value only: Default(), name,
   short name, description and required-ness stay as they were. *)
C10_LayeredValue ==
    /\ [](Value(argument) = Layered)
    /\ [][IsUpdateStep =>
            /\ Default(argument') = Default(argument)
            /\ argument'.Name = argument.Name
            /\ argument'.ShortName = argument.ShortName
            /\ argument'.Description = argument.Description
            /\ argument'.IsRequired = argument.IsRequired]_vars

C10_Witness ==
    /\ lastUpdate.has /\ lastDefault.has
    /\ lastUpdate.val # lastDefault.val
    /\ argument.Description # <<>> /\ argument.IsRequired
    /\ Value(argument) = lastUpdate
    /\ Default(argument) = lastDefault

(* C17: when the value captured from the last matched occurrence of a non-flag switch
   is the empty string, Resolve does what it does with no switch at all: RequiredMissing
   when required, otherwise the default (absent if none), the converter not called,
   also when an earlier occurrence gave a non-empty value. *)
C17_EmptyValueIsAbsent ==
    LET argv == ArgumentValues
        occ  == Occurrences(argv, argument, 1)
    IN  (/\ Parsed /\ ~IsFlagDeclaration /\ occ # <<>>
         /\ occ[Len(occ)] < Len(argv) /\ argv[occ[Len(occ)] + 1] = <<>>)
            => /\ result.converted = <<>>
               /\ IF argument.IsRequired
                  THEN result.status = "RequiredMissing" /\ ~result.value.has
                  ELSE result.status = "returned" /\ result.value = argument.DefaultValue

C17_Witness ==
    /\ Parsed /\ argument.T = "uint8_t" /\ ~argument.IsRequired
    /\ argument.DefaultValue = Some(1)
    /\ ArgumentValues = <<Tok_long, <<"7">>, Tok_short, <<>>>>
    /\ result.status = "returned" /\ result.value = Some(1)
    /\ result.converted = <<>>

(* C19: in the scan of a non-flag declaration the token after a matched switch is the
   raw value whatever it is, and the scan never visits it: the switch is matched exactly
   at the positions a reading that skips each value meets it. For --help --help 7 the
   raw value is --help, and for --help --help it is --help too, without MissingValue. *)
C19_ValueConsumed ==
    LET argv == ArgumentValues
        occ  == Occurrences(argv, argument, 1)
        raw  == result.scan.actualValue
    IN  (Parsed /\ ~IsFlagDeclaration)
            => /\ result.scan.matchedAt = occ
               /\ \A k \in 1..Len(occ) : (occ[k] + 1) \notin result.scan.examined
               /\ (occ # <<>> /\ occ[Len(occ)] < Len(argv))
                     => (result.status # "MissingValue" /\ raw = argv[occ[Len(occ)] + 1])
               /\ argv = <<Tok_long, Tok_long, <<"7">>>> => raw = Tok_long
               /\ argv = <<Tok_long, Tok_long>>
                     => (raw = Tok_long /\ result.status # "MissingValue")

C19_Witness ==
    /\ Parsed /\ argument.T = "std::string"
    /\ ArgumentValues = <<Tok_long, Tok_long, <<"7">>>>
    /\ result.status = "returned" /\ result.value = Some(Tok_long)
    /\ result.scan.examined = {1, 3}

----------------------------------------------------------------------------
(* Vocabulary of the wrapping properties *)

\* the words of t: the maximal runs of characters that are not white space, as
\* <<first position, last position>>
WordSpans(t) ==
    {sp \in (1..Len(t)) \X (1..Len(t)) :
        /\ sp[1] <= sp[2]
        /\ \A i \in sp[1]..sp[2] : ~IsSpace(t[i])
        /\ sp[1] = 1 \/ IsSpace(t[sp[1] - 1])
        /\ sp[2] = Len(t) \/ IsSpace(t[sp[2] + 1])}

\* the n-th word of t, from the left
NthSpan(t, n) ==
    CHOOSE sp \in WordSpans(t) : Cardinality({q \in WordSpans(t) : q[1] < sp[1]}) = n - 1

\* the words of the text t in order, each with the number of line breaks before it
InputWords(t) ==
    [n \in 1..Cardinality(WordSpans(t)) |->
        LET sp == NthSpan(t, n)
        IN  [word |-> SubSeq(t, sp[1], sp[2]),
             segment |-> Cardinality({i \in 1..sp[1] : t[i] = "\n"})]]

\* the words of the lines ls from line k on, in order, each with its line and with
\* the length of that line up to and including the word
RECURSIVE OutputWords(_, _)
OutputWords(ls, k) ==
    IF k > Len(ls) THEN <<>>
    ELSE [n \in 1..Cardinality(WordSpans(ls[k])) |->
             LET sp == NthSpan(ls[k], n)
             IN  [word |-> SubSeq(ls[k], sp[1], sp[2]), line |-> k, upto |-> sp[2]]]
         \o OutputWords(ls, k + 1)

\* a line made of words with exactly one space between two of them and nothing else
IsPacked(l) ==
    /\ l # <<>>
    /\ l[1] # " " /\ l[Len(l)] # " "
    /\ \A i \in 1..Len(l) : l[i] # "\n"
    /\ \A i \in 1..(Len(l) - 1) : ~(l[i] = " " /\ l[i + 1] = " ")

(* C15: the text is split on its line breaks and every piece is wrapped on its own by
   greedy packing: the lines returned hold the words of the text, whole and in order,
   separated by one space, and no line is empty; a word follows its predecessor on the
   same line exactly when both stand in the same piece and the length of the line so
   far plus the length of the word plus 1 is at most maxWidth; a word longer than
   maxWidth is alone on its line. *)
C15_GreedyWordWrap ==
    wrapped.has =>
        LET lines == wrapped.val
            in    == InputWords(text)
            out   == OutputWords(lines, 1)
        IN  /\ \A k \in 1..Len(lines) : IsPacked(lines[k])
            /\ Len(out) = Len(in)
            /\ \A n \in 1..Len(in) : out[n].word = in[n].word
            /\ \A n \in 1..(Len(in) - 1) :
                  (out[n].line = out[n + 1].line)
                      <=> /\ in[n].segment = in[n + 1].segment
                          /\ out[n].upto + Len(in[n + 1].word) + 1 <= maxWidth
            /\ \A n \in 1..Len(in) :
                  Len(in[n].word) > maxWidth => lines[out[n].line] = in[n].word

\* a text wrapped into a line of two words followed by a line for the word that did
\* not fit
C15_Witness ==
    /\ wrapped.has
    /\ \A i \in 1..Len(text) : text[i] # "\n"
    /\ Len(wrapped.val) >= 2
    /\ Cardinality(WordSpans(wrapped.val[1])) = 2

\* a text with a line break between two words, and a word longer than maxWidth
C15_WitnessLineBreak ==
    /\ wrapped.has
    /\ \E n \in 1..(Len(InputWords(text)) - 1) :
          InputWords(text)[n].segment # InputWords(text)[n + 1].segment
    /\ \E n \in 1..Len(InputWords(text)) : Len(InputWords(text)[n].word) > maxWidth
    /\ maxWidth > 0

\* t without its leading and trailing white space
Trim(t) ==
    IF \A i \in 1..Len(t) : IsSpace(t[i]) THEN <<>>
    ELSE LET b == CHOOSE i \in 1..Len(t) : ~IsSpace(t[i]) /\ \A j \in 1..(i - 1) : IsSpace(t[j])
             e == CHOOSE i \in 1..Len(t) :
                      ~IsSpace(t[i]) /\ \A j \in (i + 1)..Len(t) : IsSpace(t[j])
         IN  SubSeq(t, b, e)

\* a text without a line break, shorter than maxWidth
IsShortSingleLine(t, width) ==
    /\ \A i \in 1..Len(t) : t[i] # "\n"
    /\ Len(t) < width

(* C16, as stated: a text without a line break and shorter than maxWidth is wrapped
   into exactly one line, the text without its leading and trailing white space. *)
C16_ShortTextIsOneTrimmedLine ==
    (wrapped.has /\ IsShortSingleLine(text, maxWidth))
        => wrapped.val = <<Trim(text)>>

(* C16, amended: a text without a line break and shorter than maxWidth is wrapped into
   no line at all when it holds no word, and otherwise into exactly one line: its
   words in order with one space between two of them, which is the text without its
   leading and trailing white space when no two white-space characters of the text
   are adjacent between its words. *)
C16_ShortTextIsOneNormalisedLine ==
    (wrapped.has /\ IsShortSingleLine(text, maxWidth))
        => IF WordSpans(text) = {}
           THEN wrapped.val = <<>>
           ELSE /\ Len(wrapped.val) = 1
                /\ IsPacked(wrapped.val[1])
                /\ LET in  == InputWords(text)
                       out == OutputWords(wrapped.val, 1)
                   IN  /\ Len(out) = Len(in)
                       /\ \A n \in 1..Len(in) : out[n].word = in[n].word
                /\ IsPacked(Trim(text)) => wrapped.val[1] = Trim(text)

\* a short text with white space around its two words, wrapped
C16_Witness ==
    /\ wrapped.has
    /\ IsShortSingleLine(text, maxWidth)
    /\ Cardinality(WordSpans(text)) = 2
    /\ text[1] = " "
    /\ IsPacked(Trim(text))

----------------------------------------------------------------------------
(* Vocabulary of the help properties *)

\* the largest number of the non-empty set S
MaxOf(S) == CHOOSE m \in S : \A x \in S : x <= m

\* a ShowHelp has just written its lines
Rendered == printed # NoOutput

\* the recorded declarations ShowHelp rendered, by position
Options == 1..Len(ArgumentInformations)

\* the length of the longest key string of the recorded declarations
LongestKey == MaxOf({0} \cup {Len(HelpString(ArgumentInformations[k])) : k \in Options})

\* the key of declaration k followed by spaces up to the description column
KeyColumn(k) ==
    HelpString(ArgumentInformations[k])
        \o Spaces(LongestKey - Len(HelpString(ArgumentInformations[k])) + 2)

\* the lines of declaration k begin with its key and spaces up to the description
\* column, on one line
SingleLineShape(k) ==
    LET b == printed.blocks[k]
    IN  /\ Len(b) >= 1
        /\ Len(b[1]) >= Len(KeyColumn(k))
        /\ SubSeq(b[1], 1, Len(KeyColumn(k))) = KeyColumn(k)

\* the lines of declaration k begin with a line that is its key and nothing else
StackedShape(k) ==
    LET b == printed.blocks[k]
    IN  Len(b) >= 1 /\ b[1] = HelpString(ArgumentInformations[k])

\* the lines written are the two header lines and then the lines of the declarations
\* in the order of the record
BlocksInOrder ==
    /\ Len(printed.blocks) = Len(ArgumentInformations)
    /\ printed.helpLines = SubSeq(printed.helpLines, 1, 2) \o Concat(printed.blocks, 1)

(* C12: with keysMaxLength the length of the longest key string of the recorded
   declarations, ShowHelp lays every declaration out on one line when
   keysMaxLength < maxWidth / 3 (integer division) and stacked otherwise, the same way
   for all declarations of one rendering; for maxWidth = 80 a longest key of 25
   characters gives the one-line layout and one of 26 characters the stacked one. *)
C12_LayoutMode ==
    Rendered =>
        /\ BlocksInOrder
        /\ printed.keysMaxLength = LongestKey
        /\ printed.isOneLine <=> (LongestKey < maxWidth \div 3)
        /\ (LongestKey < maxWidth \div 3) => \A k \in Options : SingleLineShape(k)
        /\ ~(LongestKey < maxWidth \div 3) => \A k \in Options : StackedShape(k)
        /\ (maxWidth = DefaultMaxWidth /\ LongestKey = 25)
               => \A k \in Options : SingleLineShape(k) /\ ~StackedShape(k)
        /\ (maxWidth = DefaultMaxWidth /\ LongestKey = 26)
               => \A k \in Options : StackedShape(k) /\ ~SingleLineShape(k)

\* two declarations rendered at width 80, the longer key of 26 characters
C12_Witness ==
    /\ Rendered
    /\ maxWidth = DefaultMaxWidth
    /\ Len(ArgumentInformations) = 2
    /\ LongestKey = 26
    /\ Len(HelpString(ArgumentInformations[1])) < 26

\* two declarations rendered at width 80, the longer key of 25 characters
C12_WitnessSingleLine ==
    /\ Rendered
    /\ maxWidth = DefaultMaxWidth
    /\ Len(ArgumentInformations) = 2
    /\ LongestKey = 25
    /\ Len(HelpString(ArgumentInformations[1])) < 25

\* the lines of declaration k in the one-line layout, its description wrapped into ws
SingleLineBlock(k, ws) ==
    [j \in 1..Len(ws) |-> (IF j = 1 THEN KeyColumn(k) ELSE Spaces(LongestKey + 2)) \o ws[j]]

(* C13, as stated: in the one-line layout the lines of every declaration with a
   non-empty description are the description wrapped to maxWidth - keysMaxLength - 2,
   the first line after the key padded with spaces to keysMaxLength and two spaces,
   every further line after keysMaxLength + 2 spaces. *)
C13_SingleLineLayout ==
    (Rendered /\ printed.isOneLine) =>
        \A k \in Options :
            ArgumentInformations[k].Description # <<>> =>
                LET ws == WrapLines(ArgumentInformations[k].Description,
                                    maxWidth - LongestKey - 2)
                IN  /\ Len(ws) >= 1
                    /\ printed.blocks[k] = SingleLineBlock(k, ws)

(* C13, amended: in the one-line layout the lines of every declaration whose
   description holds at least one word are the description wrapped to
   maxWidth - keysMaxLength - 2, the first line after the key, the spaces that follow
   the key up to keysMaxLength and two more spaces, every further line after
   keysMaxLength + 2 spaces; a description without a word gives the key, the spaces
   up to keysMaxLength and two more spaces, and no description line. *)
C13_SingleLineLayoutOfWords ==
    (Rendered /\ printed.isOneLine) =>
        \A k \in Options :
            LET ws == WrapLines(ArgumentInformations[k].Description,
                                maxWidth - LongestKey - 2)
            IN  IF WordSpans(ArgumentInformations[k].Description) # {}
                THEN /\ Len(ws) >= 1
                     /\ printed.descriptionWidth = maxWidth - LongestKey - 2
                     /\ printed.blocks[k] = SingleLineBlock(k, ws)
                ELSE printed.blocks[k] = <<KeyColumn(k)>>

\* a one-line rendering with a description of two lines under a key shorter than
\* the longest one
C13_Witness ==
    /\ Rendered
    /\ printed.isOneLine
    /\ \E k \in Options :
          /\ Len(printed.blocks[k]) >= 2
          /\ Len(HelpString(ArgumentInformations[k])) < LongestKey

(* C14: a declaration whose description is empty gives, in the one-line layout, exactly
   one line, made of the key and of the spaces that pad it to the description column,
   and in the stacked layout its key line and no other line. *)
C14_EmptyDescription ==
    Rendered =>
        \A k \in Options :
            ArgumentInformations[k].Description = <<>> =>
                IF LongestKey < maxWidth \div 3
                THEN /\ Len(printed.blocks[k]) = 1
                     /\ Len(printed.blocks[k][1]) = LongestKey + 2
                     /\ printed.blocks[k][1] = KeyColumn(k)
                ELSE printed.blocks[k] = <<HelpString(ArgumentInformations[k])>>

\* a one-line rendering of a declaration without description beside a longer key
C14_Witness ==
    /\ Rendered
    /\ LongestKey < maxWidth \div 3
    /\ \E k \in Options :
          /\ ArgumentInformations[k].Description = <<>>
          /\ Len(HelpString(ArgumentInformations[k])) < LongestKey

\* a stacked rendering of a declaration without description before another one
C14_WitnessStacked ==
    /\ Rendered
    /\ ~(LongestKey < maxWidth \div 3)
    /\ Len(ArgumentInformations) = 2
    /\ ArgumentInformations[1].Description = <<>>
    /\ ArgumentInformations[2].Description # <<>>

(* C20: when the one-line layout is chosen for at least one declaration,
   maxWidth - keysMaxLength - 2 does not wrap around and is positive, and every line
   of every declaration is at most maxWidth long, provided no word of a description
   is longer than maxWidth - keysMaxLength - 2. *)
C20_SingleLineWidthBound ==
    (Rendered /\ Options # {} /\ printed.isOneLine) =>
        /\ printed.descriptionWidth > 0
        /\ printed.descriptionWidth = maxWidth - LongestKey - 2
        /\ (\A k \in Options :
               \A sp \in WordSpans(ArgumentInformations[k].Description) :
                   sp[2] - sp[1] + 1 <= maxWidth - LongestKey - 2)
               => \A k \in Options : \A j \in 1..Len(printed.blocks[k]) :
                      Len(printed.blocks[k][j]) <= maxWidth

\* a one-line rendering with a first line, a continuation line and the line of an
\* empty description, the description too long for one line of maxWidth
C20_Witness ==
    /\ Rendered
    /\ printed.isOneLine
    /\ \E k \in Options :
          /\ Len(printed.blocks[k]) >= 2
          /\ LongestKey + 2 + Len(ArgumentInformations[k].Description) > maxWidth
    /\ \E k \in Options : ArgumentInformations[k].Description = <<>>
    /\ \A k \in Options :
          \A sp \in WordSpans(ArgumentInformations[k].Description) :
              sp[2] - sp[1] + 1 <= maxWidth - LongestKey - 2

----------------------------------------------------------------------------
(* Vocabulary of the session properties *)

\* the entry ArgumentInformation::New makes of the declaration a logged call was given
InformationOf(entry) ==
    [Name |-> entry.Name, ShortName |-> entry.ShortName, Description |-> entry.Description,
     IsFlag |-> entry.T = "Flag", IsRequired |-> entry.IsRequired]

\* the lines of declaration k of the record begin with its key
ListedAt(k) == SingleLineShape(k) \/ StackedShape(k)

\* the outcomes of a WhispArg::Parse call that throws
Failures == {"MissingValue", "RequiredMissing", "CoercionFailure"}

(* C11: after any sequence of WhispArg::Parse calls the record lists the declarations
   in the order of the calls; a step leaves the record as it is or appends one entry
   to it, and leaves the token list as it is; ShowHelp writes the lines of the
   declarations in the order of the record. *)
C11_RecordInResolutionOrder ==
    /\ [](/\ Len(ArgumentInformations) = Len(parseLog)
          /\ \A k \in 1..Len(parseLog) :
                ArgumentInformations[k] = InformationOf(parseLog[k]))
    /\ [](Rendered => BlocksInOrder /\ \A k \in Options : ListedAt(k))
    /\ [][/\ ArgumentValues' = ArgumentValues
          /\ \/ ArgumentInformations' = ArgumentInformations
             \/ /\ Len(ArgumentInformations') = Len(ArgumentInformations) + 1
                /\ SubSeq(ArgumentInformations', 1, Len(ArgumentInformations))
                       = ArgumentInformations]_vars

\* the help shown after two declarations of different names were resolved and the
\* caller has turned to another declaration since
C11_Witness ==
    /\ Rendered
    /\ Len(parseLog) = 2
    /\ ArgumentInformations[1].Name # ArgumentInformations[2].Name
    /\ ArgumentInformations[1].IsFlag # ArgumentInformations[2].IsFlag
    /\ argument.Name = ArgumentInformations[1].Name

(* C18: every WhispArg::Parse call appends the entry of its declaration to the record,
   whether it returns or fails with MissingValue, RequiredMissing or CoercionFailure
   and whether or not the name is recorded already; a declaration whose call failed
   is listed by a later ShowHelp. *)
C18_RecordedBeforeResolved ==
    /\ [][parseLog' # parseLog
             => /\ ArgumentInformations'
                      = Append(ArgumentInformations, ArgumentInformationNew(argument))
                /\ result'.status \in Failures
                      => /\ ArgumentInformations' # ArgumentInformations
                         /\ argument' = argument]_vars
    /\ [](Rendered => \A k \in 1..Len(parseLog) :
              parseLog[k].status \in Failures
                  => /\ k \in Options
                     /\ ListedAt(k)
                     /\ ArgumentInformations[k].Name = parseLog[k].Name)

\* the help shown after a call that failed with MissingValue and a call that failed
\* with CoercionFailure or RequiredMissing, on declarations of the same name
C18_Witness ==
    /\ Rendered
    /\ Len(parseLog) = 2
    /\ parseLog[1].status = "MissingValue" \/ parseLog[1].status = "CoercionFailure"
    /\ parseLog[2].status \in Failures
    /\ ArgumentInformations[1].Name = ArgumentInformations[2].Name

============================================================================
